---- MODULE Spec2Model ----
(***************************************************************************)
(* Model of the aristotle-mcp tool adapter (src/main.py).                  *)
(*                                                                         *)
(* Every tool or resource invocation is an asyncio coroutine.  A coroutine *)
(* runs without interruption between two awaits, so each action below is   *)
(* one such run: from the invocation to the first await, or from the       *)
(* completion of an await to the next await or to the return.              *)
(*                                                                         *)
(* Python str values are sequences of tokens (single characters where the  *)
(* characters matter, as in a solution text), so that formatting, path     *)
(* and newline conversions are computed rather than assumed.               *)
(***************************************************************************)
EXTENDS Naturals, Sequences, FiniteSets, TLC

\* ---------------------------------------------------------------- bounds
NumTasks == 2        \* invocations that may be in flight together
MaxCalls == 2        \* invocations the host makes
MaxProjects == 2     \* projects the backend accepts
MaxTextLen == 2      \* length of a solution text

Tasks == 1..NumTasks

\* ------------------------------------------------------- Python values
\* None, for the Optional[str] values (encoded as a str no input equals)
None == <<"<None>">>
\* an absent file
NoFile == <<"<no file>">>
CR == "\r"
LF == "\n"
Chars == {"a", CR, LF}
Texts == UNION {[1..n -> Chars] : n \in 0..MaxTextLen}

\* bool(x) of an Optional[str]
Truthy(x) == x # None /\ x # <<>>

\* ------------------------------------------------------------ the paths
\* the process's working directory
Cwd == <<"/", "work">>
ProofLean == <<"proof.lean">>
OutLean == <<"out.lean">>
AbsOutLean == <<"/", "work", "out.lean">>
\* the file_path arguments and the save_solution_to / save_to arguments
FilePaths == {ProofLean, OutLean}
SavePaths == {None, <<>>, OutLean, AbsOutLean}

\* Path.absolute(): the working directory is put before a relative path
Absolute(p) == IF Len(p) > 0 /\ p[1] = "/" THEN p ELSE Cwd \o p
AbsPaths == {Absolute(p) : p \in FilePaths}
\* Path.name
Name(p) == <<p[Len(p)]>>

\* os.linesep of the platform (POSIX)
linesep == <<LF>>

\* a faulty read_text, for C4: only "\r\n" is read as "\n"
RECURSIVE ReadTextMissesLoneCR(_)
ReadTextMissesLoneCR(b) ==
    IF b = <<>> THEN <<>>
    ELSE IF Len(b) > 1 /\ b[1] = CR /\ b[2] = LF
         THEN <<LF>> \o ReadTextMissesLoneCR(SubSeq(b, 3, Len(b)))
         ELSE <<b[1]>> \o ReadTextMissesLoneCR(Tail(b))

\* Path.read_text(): text mode with universal newlines, "\r\n" and "\r"
\* are read as "\n"
RECURSIVE ReadText(_)
ReadText(b) ==
    IF b = <<>> THEN <<>>
    ELSE IF b[1] = CR
         THEN IF Len(b) > 1 /\ b[2] = LF
              THEN <<LF>> \o ReadText(SubSeq(b, 3, Len(b)))
              ELSE <<LF>> \o ReadText(Tail(b))
         ELSE <<b[1]>> \o ReadText(Tail(b))

\* Path.write_text(): text mode, "\n" is written as os.linesep
RECURSIVE WriteText(_)
WriteText(s) ==
    IF s = <<>> THEN <<>>
    ELSE (IF s[1] = LF THEN linesep ELSE <<s[1]>>) \o WriteText(Tail(s))

\* "sep".join(lines)
RECURSIVE Join(_, _)
Join(sep, lines) ==
    IF lines = <<>> THEN <<>>
    ELSE IF Len(lines) = 1 THEN lines[1]
    ELSE lines[1] \o sep \o Join(sep, Tail(lines))

\* ----------------------------------------------------------- exceptions
NoExc == [type |-> "", args |-> <<>>, at |-> ""]
\* an exception of a type, with its arguments, raised at a place of the code
Exc(type, args, at) == [type |-> type, args |-> args, at |-> at]
DiskFull == <<"disk full">>
ServiceDown == <<"service unavailable">>
\* what an awaited call of the external client or of the host may raise:
\* an Exception, or the task's cancellation (CancelledError is a
\* BaseException, not an Exception)
AwaitErrors(at) == {Exc("Exception", <<ServiceDown>>, at),
                    Exc("CancelledError", <<>>, at)}
\* what the awaited get_solution may raise: an Exception with or without
\* a message, or the task's cancellation
SolutionErrors == {Exc("Exception", <<DiskFull>>, "get_solution"),
                   Exc("Exception", <<>>, "get_solution"),
                   Exc("CancelledError", <<>>, "get_solution")}
\* what writing a file that cannot be opened raises
WriteError == Exc("OSError", <<<<"Permission denied">>>>, "write_text")
\* what reading a file that is no text in the locale's encoding raises
DecodeError == Exc("UnicodeDecodeError", <<<<"invalid start byte">>>>, "read_text")

\* a faulty str(e), for C3: the name of the exception's type
StrOfTypeName(e) == <<e.type>>

\* str(e): the empty string without arguments, the argument when it is one
Str(e) == IF Len(e.args) = 0 THEN <<>> ELSE e.args[1]

\* isinstance(e, Exception)
IsException(e) == e.type \in {"Exception", "OSError", "FileNotFoundError", "UnicodeDecodeError"}

\* ------------------------------------------------------------- the backend
SUBMITTED == <<"SUBMITTED">>
RUNNING == <<"RUNNING">>
COMPLETE == <<"COMPLETE">>
FAILED == <<"FAILED">>

\* the identifier of the n-th project
ProjectId(n) == <<"p", ToString(n)>>
ProjectIds == {ProjectId(n) : n \in 1..MaxProjects}

\* datetime.isoformat() and str(datetime) of the n-th second
isoformat(n) == <<"2025-01-01", "T", "00:00:", ToString(n)>>
StrDatetime(n) == <<"2025-01-01", " ", "00:00:", ToString(n)>>

NoProject == [project_id |-> <<>>, status |-> <<>>, created_at |-> 0,
              last_updated_at |-> 0, file_name |-> None, description |-> None]

VARIABLES
    monitored_projects,  \* the module's global set
    projects,            \* the backend's projects, oldest first
    fs,                  \* the files, by absolute path
    temp_dirs,           \* the invocations whose temporary directory exists
    task,                \* the invocations in flight
    last,                \* the invocation that ended last, with its result
    returned,            \* the project ids the submission tools have returned
    invocations          \* the invocations made

vars == <<monitored_projects, projects, fs, temp_dirs, task, last, returned, invocations>>

\* an invocation: its arguments, its place (pc), its local variables and
\* its result; existed, sol, yielded, sol_exc and wrote record what the
\* environment did to it, seen the monitored set a submission started with
Idle == [op |-> "", pc |-> "idle", file_path |-> <<>>, ctx |-> FALSE,
         project_id |-> <<>>, save |-> None, limit |-> 0,
         calls |-> 0, project |-> NoProject, data |-> {}, ret |-> <<>>,
         resp |-> {}, items |-> <<>>,
         exc |-> NoExc, got |-> None, existed |-> TRUE,
         sol |-> "untried", yielded |-> <<>>, sol_exc |-> NoExc, wrote |-> "no",
         seen |-> {}]

Init ==
    /\ monitored_projects = {}
    /\ projects = <<>>
    /\ fs = [p \in AbsPaths |-> IF p = Absolute(ProofLean) THEN <<"a">> ELSE NoFile]
    /\ temp_dirs = {}
    /\ task = [t \in Tasks |-> Idle]
    /\ last = Idle
    /\ returned = {}
    /\ invocations = 0

\* ------------------------------------------------------------ helpers
\* a dict is the set of its <<key, value>> items; d[k] = v, k in d, d[k]
DictSet(d, k, v) == {kv \in d : kv[1] # k} \cup {<<k, v>>}
Has(d, k) == \E kv \in d : kv[1] = k
Get(d, k) == (CHOOSE kv \in d : kv[1] = k)[2]

\* json.dumps(data, indent=2): the JSON document, given as the object it
\* denotes; None is written null
JsonNull == <<"null">>
json_dumps(data) == {<<kv[1], IF kv[2] = None THEN JsonNull ELSE kv[2]>> : kv \in data}

\* a faulty path.exists(), for C2: the check is left out
PathAlwaysExists(files, p) == TRUE

\* path.exists()
PathExists(files, p) == files[Absolute(p)] # NoFile

\* raise e, and return
Raise(tk, e) == [tk EXCEPT !.pc = "raised", !.exc = e]
Ended(tk) == tk.pc \in {"done", "raised"}

\* what is kept of an invocation that has ended: its result and what the
\* environment did to it, without the locals that end with it
Result(tk) == [tk EXCEPT !.ctx = FALSE, !.file_path = <<>>, !.project_id = <<>>,
                         !.limit = 0, !.data = {}]

\* the invocation t goes on as tk: it waits again, or it has ended
Continue(t, tk) ==
    IF Ended(tk)
    THEN task' = [task EXCEPT ![t] = Idle] /\ last' = Result(tk)
    ELSE task' = [task EXCEPT ![t] = tk] /\ UNCHANGED last

FileOps == {"prove_lean_file", "prove_informal"}
SubmitOps == FileOps \cup {"prove_lean_code", "prove_informal_text"}

\* the host starts an invocation, as the first task that is free
Invoke(t, op) ==
    /\ task[t].pc = "idle"
    /\ \A u \in 1..(t - 1) : task[u].pc # "idle"
    /\ invocations < MaxCalls
    /\ invocations' = invocations + 1

Invocation(op) ==
    [Idle EXCEPT !.op = op,
                 !.seen = IF op \in SubmitOps THEN monitored_projects ELSE {}]

\* await Project.prove_from_file(...): the call is made, the coroutine waits
CallProveFromFile(tk) == [tk EXCEPT !.pc = "prove_from_file", !.calls = @ + 1]

\* if ctx: await ctx.info(...)
InfoThenSubmit(tk) ==
    IF tk.ctx THEN [tk EXCEPT !.pc = "ctx_info"] ELSE CallProveFromFile(tk)

FileNotFound(file_path) ==
    Exc("FileNotFoundError", <<<<"File not found: ">> \o file_path>>, "exists")

\* ------------------------------------------------- the submission tools
prove_lean_file(t, file_path, ctx) ==
    /\ Invoke(t, "prove_lean_file")
    /\ LET tk == [Invocation("prove_lean_file") EXCEPT
                     !.file_path = file_path, !.ctx = ctx,
                     !.existed = fs[Absolute(file_path)] # NoFile]
       IN Continue(t, IF ~PathExists(fs, file_path)
                      THEN Raise(tk, FileNotFound(file_path))
                      ELSE InfoThenSubmit(tk))
    /\ UNCHANGED <<monitored_projects, projects, fs, temp_dirs, returned>>

prove_informal(t, file_path, ctx) ==
    /\ Invoke(t, "prove_informal")
    /\ LET tk == [Invocation("prove_informal") EXCEPT
                     !.file_path = file_path, !.ctx = ctx,
                     !.existed = fs[Absolute(file_path)] # NoFile]
       IN Continue(t, IF ~PathExists(fs, file_path)
                      THEN Raise(tk, FileNotFound(file_path))
                      ELSE InfoThenSubmit(tk))
    /\ UNCHANGED <<monitored_projects, projects, fs, temp_dirs, returned>>

prove_lean_code(t, ctx) ==
    /\ Invoke(t, "prove_lean_code")
    /\ Continue(t, InfoThenSubmit([Invocation("prove_lean_code") EXCEPT !.ctx = ctx]))
    /\ UNCHANGED <<monitored_projects, projects, fs, temp_dirs, returned>>

prove_informal_text(t, ctx) ==
    /\ Invoke(t, "prove_informal_text")
    /\ Continue(t, InfoThenSubmit([Invocation("prove_informal_text") EXCEPT !.ctx = ctx]))
    /\ UNCHANGED <<monitored_projects, projects, fs, temp_dirs, returned>>

\* await ctx.info(...) is over: the submission is called, or the host's
\* failure leaves the tool
ctx_info_done(t) ==
    /\ task[t].pc = "ctx_info"
    /\ \/ Continue(t, CallProveFromFile(task[t]))
       \/ \E e \in AwaitErrors("ctx_info") : Continue(t, Raise(task[t], e))
    /\ UNCHANGED <<monitored_projects, projects, fs, temp_dirs, returned, invocations>>

\* the project the backend makes of a submission
NewProject(n, tk) ==
    [project_id |-> ProjectId(n), status |-> SUBMITTED, created_at |-> n,
     last_updated_at |-> n,
     file_name |-> IF tk.op \in FileOps THEN Name(tk.file_path) ELSE None,
     description |-> None]

\* a faulty message, for C1: the id is left out
ConfirmationMessageWithoutId(op, project_id) ==
    <<"Project started with ID: ">>
    \o (IF op \in FileOps THEN <<". You will be notified when it completes.">> ELSE <<".">>)

\* the f-string the tool returns
ConfirmationMessage(op, project_id) ==
    <<"Project started with ID: ">> \o project_id
    \o (IF op \in FileOps THEN <<". You will be notified when it completes.">> ELSE <<".">>)

\* a faulty add, for C9: the set is assigned, not added to
MonitoredReplace(m, project_id) == {project_id}

\* monitored_projects.add(project_id)
MonitoredAdd(m, project_id) == m \cup {project_id}

\* a faulty failure path, for C8: the submission is called once more
SubmitFailedRetries(tk, e) ==
    IF tk.calls < 2 THEN CallProveFromFile(tk) ELSE Raise(tk, e)

\* an exception of the awaited submission leaves the tool as it is
SubmitFailed(tk, e) == Raise(tk, e)

\* await Project.prove_from_file(...) is over
prove_from_file_done(t) ==
    /\ task[t].pc = "prove_from_file"
    /\ \/ /\ Len(projects) < MaxProjects
          /\ LET n == Len(projects) + 1
                 project_id == ProjectId(n)
             IN /\ projects' = Append(projects, NewProject(n, task[t]))
                /\ monitored_projects' = MonitoredAdd(monitored_projects, project_id)
                /\ returned' = returned \cup {project_id}
                /\ Continue(t, [task[t] EXCEPT
                                   !.pc = "done", !.got = project_id,
                                   !.ret = ConfirmationMessage(task[t].op, project_id)])
       \/ /\ \E e \in AwaitErrors("prove_from_file") :
                Continue(t, SubmitFailed(task[t], e))
          /\ UNCHANGED <<monitored_projects, projects, returned>>
    /\ UNCHANGED <<fs, temp_dirs, invocations>>

\* ------------------------------------------- get_project_status
\* Project.from_id(project_id): the places of the project in the backend
FromId(project_id) == {i \in 1..Len(projects) : projects[i].project_id = project_id}

\* project.status == ProjectStatus.COMPLETE
IsComplete(project) == project.status = COMPLETE

\* the dict made of the fetched project
get_project_status_data(project) ==
    {<<"project_id", project.project_id>>,
     <<"status", project.status>>,
     <<"created_at", isoformat(project.created_at)>>,
     <<"last_updated_at", isoformat(project.last_updated_at)>>,
     <<"file_name", project.file_name>>,
     <<"description", project.description>>}

\* a faulty exit, for C6: the directory is removed only at the block's end
ExitTemporaryDirectoryUnlessRaised(dirs, t, raised) ==
    IF raised THEN dirs ELSE dirs \ {t}

\* the end of "with tempfile.TemporaryDirectory() as temp_dir", left by the
\* end of its block or by an exception
ExitTemporaryDirectory(dirs, t, raised) == dirs \ {t}

\* a faulty handler, for C10: an empty solution is reported with the error
ExceptHandlerKeepsSolutionKey(data, e) ==
    DictSet(DictSet(data, "solution", <<>>), "solution_error", Str(e))

\* except Exception as e: data["solution_error"] = str(e)
ExceptHandler(data, e) == DictSet(data, "solution_error", Str(e))

\* a faulty saved_to, for C5: the path as it was given
SavedToAsGiven(save_path) == save_path

\* str(save_path.absolute())
SavedTo(save_path) == Absolute(save_path)

\* return json.dumps(data, indent=2)
ReturnJson(tk, data) == [tk EXCEPT !.pc = "done", !.data = data, !.resp = json_dumps(data)]

get_project_status(t, project_id, save_solution_to) ==
    /\ Invoke(t, "get_project_status")
    /\ Continue(t, [Invocation("get_project_status") EXCEPT
                       !.project_id = project_id, !.save = save_solution_to,
                       !.pc = "from_id"])
    /\ UNCHANGED <<monitored_projects, projects, fs, temp_dirs, returned>>

\* await Project.from_id(project_id) is over
get_project_status_from_id(t) ==
    /\ task[t].pc = "from_id"
    /\ task[t].op = "get_project_status"
    /\ \/ \E i \in FromId(task[t].project_id) :
            LET project == projects[i]
                data == get_project_status_data(project)
                tk == [task[t] EXCEPT !.project = project, !.data = data]
            IN \/ /\ IsComplete(project)
                  /\ temp_dirs' = temp_dirs \cup {t}
                  /\ Continue(t, [tk EXCEPT !.pc = "get_solution"])
               \/ /\ ~IsComplete(project)
                  /\ Continue(t, ReturnJson(tk, data))
                  /\ UNCHANGED temp_dirs
       \/ /\ \E e \in AwaitErrors("from_id") : Continue(t, Raise(task[t], e))
          /\ UNCHANGED temp_dirs
    /\ UNCHANGED <<monitored_projects, projects, fs, returned, invocations>>

\* await project.get_solution(output_path=output_path) is over, and the
\* tool runs to its return
get_project_status_get_solution(t) ==
    /\ task[t].pc = "get_solution"
    /\ task[t].op = "get_project_status"
    /\ \/ \* get_solution raised
          \E e \in SolutionErrors :
             /\ temp_dirs' = ExitTemporaryDirectory(temp_dirs, t, TRUE)
             /\ LET tk == [task[t] EXCEPT !.sol = "raised", !.sol_exc = e]
                IN Continue(t, IF IsException(e)
                               THEN ReturnJson(tk, ExceptHandler(tk.data, e))
                               ELSE Raise(tk, e))
             /\ UNCHANGED fs
       \/ \* get_solution wrote no file: output_path.exists() is false
          /\ temp_dirs' = ExitTemporaryDirectory(temp_dirs, t, FALSE)
          /\ Continue(t, ReturnJson([task[t] EXCEPT !.sol = "absent"], task[t].data))
          /\ UNCHANGED fs
       \/ \* get_solution wrote a file that read_text cannot decode
          /\ temp_dirs' = ExitTemporaryDirectory(temp_dirs, t, TRUE)
          /\ Continue(t, ReturnJson([task[t] EXCEPT !.sol = "undecodable"],
                                    ExceptHandler(task[t].data, DecodeError)))
          /\ UNCHANGED fs
       \/ \* get_solution wrote the text b to output_path
          \E b \in Texts :
             LET solution_content == ReadText(b)
                 save_solution_to == task[t].save
                 tk == [task[t] EXCEPT !.sol = "text", !.yielded = b]
                 data == DictSet(tk.data, "solution", solution_content)
             IN \/ /\ ~Truthy(save_solution_to)
                   /\ temp_dirs' = ExitTemporaryDirectory(temp_dirs, t, FALSE)
                   /\ Continue(t, ReturnJson(tk, data))
                   /\ UNCHANGED fs
                \/ \* save_path.write_text(solution_content)
                   /\ Truthy(save_solution_to)
                   /\ temp_dirs' = ExitTemporaryDirectory(temp_dirs, t, FALSE)
                   /\ fs' = [fs EXCEPT ![Absolute(save_solution_to)] = WriteText(solution_content)]
                   /\ Continue(t, ReturnJson([tk EXCEPT !.wrote = "ok"],
                                             DictSet(data, "saved_to", SavedTo(save_solution_to))))
                \/ \* write_text raises: the file cannot be opened
                   /\ Truthy(save_solution_to)
                   /\ temp_dirs' = ExitTemporaryDirectory(temp_dirs, t, TRUE)
                   /\ UNCHANGED fs
                   /\ Continue(t, ReturnJson([tk EXCEPT !.wrote = "failed"],
                                             ExceptHandler(data, WriteError)))
    /\ UNCHANGED <<monitored_projects, projects, returned, invocations>>

\* ------------------------------------- resource aristotle://projects/{id}
\* a faulty dict, for C7: last_updated_at is left out, as in the listing
get_project_resource_data_without_last_updated_at(project) ==
    {<<"project_id", project.project_id>>,
     <<"status", project.status>>,
     <<"created_at", isoformat(project.created_at)>>,
     <<"file_name", project.file_name>>,
     <<"description", project.description>>}

\* the dict made of the fetched project
get_project_resource_data(project) ==
    {<<"project_id", project.project_id>>,
     <<"status", project.status>>,
     <<"created_at", isoformat(project.created_at)>>,
     <<"last_updated_at", isoformat(project.last_updated_at)>>,
     <<"file_name", project.file_name>>,
     <<"description", project.description>>}

get_project_resource(t, project_id) ==
    /\ Invoke(t, "get_project_resource")
    /\ Continue(t, [Invocation("get_project_resource") EXCEPT
                       !.project_id = project_id, !.pc = "from_id"])
    /\ UNCHANGED <<monitored_projects, projects, fs, temp_dirs, returned>>

\* await Project.from_id(project_id) is over
get_project_resource_from_id(t) ==
    /\ task[t].pc = "from_id"
    /\ task[t].op = "get_project_resource"
    /\ \/ \E i \in FromId(task[t].project_id) :
            LET project == projects[i]
                data == get_project_resource_data(project)
                tk == [task[t] EXCEPT !.project = project, !.data = data]
            IN \/ /\ IsComplete(project)
                  /\ temp_dirs' = temp_dirs \cup {t}
                  /\ Continue(t, [tk EXCEPT !.pc = "get_solution"])
               \/ /\ ~IsComplete(project)
                  /\ Continue(t, ReturnJson(tk, data))
                  /\ UNCHANGED temp_dirs
       \/ /\ \E e \in AwaitErrors("from_id") : Continue(t, Raise(task[t], e))
          /\ UNCHANGED temp_dirs
    /\ UNCHANGED <<monitored_projects, projects, fs, returned, invocations>>

\* await project.get_solution(output_path=output_path) is over, and the
\* resource runs to its return
get_project_resource_get_solution(t) ==
    /\ task[t].pc = "get_solution"
    /\ task[t].op = "get_project_resource"
    /\ \/ \E e \in SolutionErrors :
             /\ temp_dirs' = ExitTemporaryDirectory(temp_dirs, t, TRUE)
             /\ LET tk == [task[t] EXCEPT !.sol = "raised", !.sol_exc = e]
                IN Continue(t, IF IsException(e)
                               THEN ReturnJson(tk, ExceptHandler(tk.data, e))
                               ELSE Raise(tk, e))
       \/ /\ temp_dirs' = ExitTemporaryDirectory(temp_dirs, t, FALSE)
          /\ Continue(t, ReturnJson([task[t] EXCEPT !.sol = "absent"], task[t].data))
       \/ /\ temp_dirs' = ExitTemporaryDirectory(temp_dirs, t, TRUE)
          /\ Continue(t, ReturnJson([task[t] EXCEPT !.sol = "undecodable"],
                                    ExceptHandler(task[t].data, DecodeError)))
       \/ \E b \in Texts :
             /\ temp_dirs' = ExitTemporaryDirectory(temp_dirs, t, FALSE)
             /\ Continue(t, ReturnJson([task[t] EXCEPT !.sol = "text", !.yielded = b],
                                       DictSet(task[t].data, "solution", ReadText(b))))
    /\ UNCHANGED <<monitored_projects, projects, fs, returned, invocations>>

\* ------------------------------------------------------- the listings
\* the default of limit, and the limit of the resource
DefaultLimit == 10
ResourceLimit == 20
Limits == {1, DefaultLimit}

\* Project.list_projects(limit=limit): the most recent projects, newest first
ListProjects(limit) ==
    LET n == IF Len(projects) < limit THEN Len(projects) ELSE limit
    IN [i \in 1..n |-> projects[Len(projects) + 1 - i]]

\* f"Project: {p.project_id}, Status: {p.status.value}, Created: {p.created_at}"
Line(p) ==
    <<"Project: ">> \o p.project_id \o <<", Status: ">> \o p.status
    \o <<", Created: ">> \o StrDatetime(p.created_at)

list_recent_projects(t, limit, save_to) ==
    /\ Invoke(t, "list_recent_projects")
    /\ Continue(t, [Invocation("list_recent_projects") EXCEPT
                       !.limit = limit, !.save = save_to, !.pc = "list_projects"])
    /\ UNCHANGED <<monitored_projects, projects, fs, temp_dirs, returned>>

\* await Project.list_projects(limit=limit) is over
list_recent_projects_done(t) ==
    /\ task[t].pc = "list_projects"
    /\ task[t].op = "list_recent_projects"
    /\ \/ /\ \E e \in AwaitErrors("list_projects") : Continue(t, Raise(task[t], e))
          /\ UNCHANGED fs
       \/ LET ps == ListProjects(task[t].limit)
              lines == [i \in 1..Len(ps) |-> Line(ps[i])]
              result == Join(<<LF>>, lines)
              save_to == task[t].save
          IN \/ /\ ~Truthy(save_to)
                /\ Continue(t, [task[t] EXCEPT !.pc = "done", !.ret = result])
                /\ UNCHANGED fs
             \/ /\ Truthy(save_to)
                /\ fs' = [fs EXCEPT ![Absolute(save_to)] = WriteText(result)]
                /\ Continue(t, [task[t] EXCEPT
                                   !.pc = "done", !.wrote = "ok",
                                   !.ret = <<"Project list saved to ">> \o save_to])
             \/ /\ Truthy(save_to)
                /\ UNCHANGED fs
                /\ Continue(t, Raise([task[t] EXCEPT !.wrote = "failed"], WriteError))
    /\ UNCHANGED <<monitored_projects, projects, temp_dirs, returned, invocations>>

list_projects_resource(t) ==
    /\ Invoke(t, "list_projects_resource")
    /\ Continue(t, [Invocation("list_projects_resource") EXCEPT
                       !.limit = ResourceLimit, !.pc = "list_projects"])
    /\ UNCHANGED <<monitored_projects, projects, fs, temp_dirs, returned>>

\* the dict of a listed project
ListItem(p) ==
    {<<"project_id", p.project_id>>,
     <<"status", p.status>>,
     <<"created_at", isoformat(p.created_at)>>,
     <<"file_name", p.file_name>>,
     <<"description", p.description>>}

\* await Project.list_projects(limit=20) is over
list_projects_resource_done(t) ==
    /\ task[t].pc = "list_projects"
    /\ task[t].op = "list_projects_resource"
    /\ \/ \E e \in AwaitErrors("list_projects") : Continue(t, Raise(task[t], e))
       \/ LET ps == ListProjects(ResourceLimit)
          IN Continue(t, [task[t] EXCEPT
                             !.pc = "done",
                             !.items = [i \in 1..Len(ps) |-> json_dumps(ListItem(ps[i]))]])
    /\ UNCHANGED <<monitored_projects, projects, fs, temp_dirs, returned, invocations>>

\* the backend works on a project
BackendAdvance(i) ==
    /\ i \in 1..Len(projects)
    /\ \E s \in {RUNNING, COMPLETE, FAILED} :
          /\ \/ projects[i].status = SUBMITTED /\ s = RUNNING
             \/ projects[i].status = RUNNING /\ s \in {COMPLETE, FAILED}
          /\ projects' = [projects EXCEPT ![i] =
                            [@ EXCEPT !.status = s, !.last_updated_at = @ + 1]]
    /\ UNCHANGED <<monitored_projects, fs, temp_dirs, task, last, returned, invocations>>

Next ==
    \/ \E t \in Tasks, p \in FilePaths, c \in BOOLEAN : prove_lean_file(t, p, c)
    \/ \E t \in Tasks, p \in FilePaths, c \in BOOLEAN : prove_informal(t, p, c)
    \/ \E t \in Tasks, c \in BOOLEAN : prove_lean_code(t, c)
    \/ \E t \in Tasks, c \in BOOLEAN : prove_informal_text(t, c)
    \/ \E t \in Tasks : ctx_info_done(t)
    \/ \E t \in Tasks : prove_from_file_done(t)
    \/ \E t \in Tasks, id \in ProjectIds, sp \in SavePaths : get_project_status(t, id, sp)
    \/ \E t \in Tasks : get_project_status_from_id(t)
    \/ \E t \in Tasks : get_project_status_get_solution(t)
    \/ \E t \in Tasks, id \in ProjectIds : get_project_resource(t, id)
    \/ \E t \in Tasks : get_project_resource_from_id(t)
    \/ \E t \in Tasks : get_project_resource_get_solution(t)
    \/ \E t \in Tasks, n \in Limits, sp \in SavePaths : list_recent_projects(t, n, sp)
    \/ \E t \in Tasks : list_recent_projects_done(t)
    \/ \E t \in Tasks : list_projects_resource(t)
    \/ \E t \in Tasks : list_projects_resource_done(t)
    \/ \E i \in 1..MaxProjects : BackendAdvance(i)

Spec == Init /\ [][Next]_vars

\* ------------------------------------------------------------ the claims
StatusOps == {"get_project_status", "get_project_resource"}
MetadataKeys == {"project_id", "status", "created_at", "last_updated_at",
                 "file_name", "description"}

\* sub is a substring of s
Contains(s, sub) ==
    \E i \in 0..(Len(s) - Len(sub)) : SubSeq(s, i + 1, i + Len(sub)) = sub

\* the invocation t returns or raises in this step, from the place pc
Ends(t, pc) == task[t].pc = pc /\ task'[t].pc = "idle"

\* C1: a submission tool that returns has returned a string that holds the
\* project id the client's submission returned, and that id is in the
\* monitored set
C1_ReturnsMonitoredId ==
    (last.op \in SubmitOps /\ last.pc = "done")
    => /\ last.got \in ProjectIds
       /\ Contains(last.ret, last.got)
       /\ last.got \in monitored_projects

C1_Witness ==
    /\ last.op = "prove_informal_text"
    /\ last.pc = "done"
    /\ last.got = ProjectId(2)
    /\ monitored_projects = {ProjectId(1), ProjectId(2)}

\* C2: a file-based submission of a path that does not exist ends in its
\* first step with FileNotFoundError, without a call of the client, and
\* the step leaves the monitored set and the backend as they were; no such
\* submission is ever waiting for the client
C2_NotFoundBeforeAnyCall ==
    [][invocations' = invocations + 1
       => /\ \A t \in Tasks : task'[t].op \in FileOps => task'[t].existed
          /\ (task' = task /\ last'.op \in FileOps /\ ~last'.existed)
             => /\ last'.pc = "raised"
                /\ last'.exc.type = "FileNotFoundError"
                /\ last'.calls = 0
                /\ monitored_projects' = monitored_projects
                /\ projects' = projects]_vars

C2_Witness ==
    /\ last.op = "prove_informal"
    /\ ~last.existed
    /\ last.pc = "raised"
    /\ last.calls = 0
    /\ monitored_projects # {}

\* C3: when get_solution raises an Exception with the message M, the tool
\* and the resource return, with the six metadata fields and with
\* solution_error equal to M
C3_SolutionErrorReported ==
    (last.op \in StatusOps /\ last.sol = "raised" /\ last.sol_exc.type = "Exception")
    => /\ last.pc = "done"
       /\ \A k \in MetadataKeys : Has(last.resp, k)
       /\ Has(last.resp, "solution_error")
       /\ last.sol_exc.args = <<DiskFull>> => Get(last.resp, "solution_error") = DiskFull
       /\ last.sol_exc.args = <<>> => Get(last.resp, "solution_error") = <<>>

C3_Witness ==
    /\ last.op = "get_project_resource"
    /\ last.sol = "raised"
    /\ last.sol_exc.args = <<DiskFull>>
    /\ last.pc = "done"
    /\ Get(last.resp, "solution_error") = DiskFull

\* the text b with every "\r\n" and every other "\r" replaced by "\n"
UniversalNewlines(b) ==
    LET kept == SelectSeq([i \in 1..Len(b) |-> i],
                          LAMBDA i : ~(b[i] = LF /\ i > 1 /\ b[i - 1] = CR))
    IN [j \in 1..Len(kept) |-> IF b[kept[j]] = CR THEN LF ELSE b[kept[j]]]

\* no solution is fetched for a project that is not COMPLETE
NoRetrievalUnlessComplete ==
    last.project.status # COMPLETE
    => /\ last.sol = "untried"
       /\ ~Has(last.resp, "solution")
       /\ ~Has(last.resp, "solution_error")

\* C4, as claimed: the solution field is exactly the text the client wrote
C4_Original ==
    (last.op \in StatusOps /\ last.pc = "done")
    => /\ last.sol = "text"
          => Has(last.resp, "solution") /\ Get(last.resp, "solution") = last.yielded
       /\ NoRetrievalUnlessComplete

\* C4, amended: the solution field is the text the client wrote as text
\* mode reads it, "\r\n" and "\r" read as "\n", which is the text itself
\* when it holds no "\r"; no solution is fetched unless COMPLETE
C4_SolutionIsTextRead ==
    (last.op \in StatusOps /\ last.pc = "done")
    => /\ last.sol = "text"
          => /\ Has(last.resp, "solution")
             /\ Get(last.resp, "solution") = UniversalNewlines(last.yielded)
             /\ (\A i \in 1..Len(last.yielded) : last.yielded[i] # CR)
                => Get(last.resp, "solution") = last.yielded
       /\ NoRetrievalUnlessComplete

C4_Witness ==
    /\ last.op = "get_project_status"
    /\ last.pc = "done"
    /\ last.sol = "text"
    /\ last.yielded = <<"a", CR>>
    /\ Get(last.resp, "solution") = <<"a", LF>>

\* C5, as claimed: with a save path, a COMPLETE project and a solution
\* that was retrieved, the response has saved_to, the absolute save path
C5_Original ==
    (last.op = "get_project_status" /\ last.pc = "done"
     /\ Truthy(last.save) /\ last.sol = "text")
    => /\ Has(last.resp, "saved_to")
       /\ Get(last.resp, "saved_to") = Absolute(last.save)

\* C5, amended: when get_project_status returns, with a save path and a
\* retrieved solution, either the file at the path holds the solution
\* field and saved_to is the absolute path, or writing the file has raised
\* and the response has solution_error and no saved_to; saved_to is in a
\* response only with solution
C5_SavedUnlessWriteFails ==
    [][\A t \in Tasks :
         (Ends(t, "get_solution") /\ last'.op = "get_project_status" /\ last'.pc = "done")
         => /\ (Truthy(last'.save) /\ last'.sol = "text")
               => \/ /\ last'.wrote = "ok"
                     /\ fs'[Absolute(last'.save)] = Get(last'.resp, "solution")
                     /\ Has(last'.resp, "saved_to")
                     /\ Get(last'.resp, "saved_to") = Absolute(last'.save)
                  \/ /\ last'.wrote = "failed"
                     /\ ~Has(last'.resp, "saved_to")
                     /\ Has(last'.resp, "solution_error")
            /\ Has(last'.resp, "saved_to")
               => Has(last'.resp, "solution") /\ Truthy(last'.save)]_vars

C5_Witness ==
    /\ last.op = "get_project_status"
    /\ last.pc = "done"
    /\ last.save = OutLean
    /\ last.wrote = "ok"
    /\ Get(last.resp, "saved_to") = AbsOutLean
    /\ Get(last.resp, "solution") = <<"a", LF>>
    /\ fs[AbsOutLean] = <<"a", LF>>

\* C6: a temporary directory exists only of an invocation that found its
\* project COMPLETE and waits for get_solution; none is left of an
\* invocation that has ended, however it ended
C6_TempDirScoped ==
    /\ \A t \in temp_dirs :
          /\ task[t].op \in StatusOps
          /\ task[t].pc = "get_solution"
          /\ task[t].project.status = COMPLETE
    /\ (\A t \in Tasks : task[t].pc = "idle") => temp_dirs = {}

C6_Witness ==
    /\ last.op = "get_project_status"
    /\ last.wrote = "failed"
    /\ \A t \in Tasks : task[t].pc = "idle"
    /\ temp_dirs = {}

\* C7: what the tool returns of a project agrees, in the six metadata
\* fields, with what the resource makes of the same project, and what the
\* resource returns with what the tool makes of it
C7_SameMetadata ==
    (last.op \in StatusOps /\ last.pc = "done")
    => LET other == IF last.op = "get_project_status"
                    THEN json_dumps(get_project_resource_data(last.project))
                    ELSE json_dumps(get_project_status_data(last.project))
       IN \A k \in MetadataKeys :
             /\ Has(last.resp, k)
             /\ Has(other, k)
             /\ Get(last.resp, k) = Get(other, k)

C7_Witness ==
    /\ last.op = "get_project_resource"
    /\ last.pc = "done"
    /\ last.project.status = RUNNING
    /\ Get(last.resp, "last_updated_at") = isoformat(2)
    /\ Get(last.resp, "created_at") = isoformat(1)

\* C8: a submission whose call of the client raises ends with that
\* exception after one call and leaves the monitored set as it was; no
\* submission calls the client twice; and the monitored set changes only
\* by the id of a submission that returns in that step
C8_FailurePropagates ==
    [][/\ \A t \in Tasks :
             /\ task'[t].calls <= 1
             /\ (Ends(t, "prove_from_file") /\ last'.pc = "raised")
                => /\ last'.exc \in AwaitErrors("prove_from_file")
                   /\ last'.calls = 1
                   /\ monitored_projects' = monitored_projects
       /\ monitored_projects' # monitored_projects
          => \E t \in Tasks :
                /\ Ends(t, "prove_from_file")
                /\ last'.pc = "done"
                /\ monitored_projects' = monitored_projects \cup {last'.got}]_vars

C8_Witness ==
    /\ last.op = "prove_lean_code"
    /\ last.pc = "raised"
    /\ last.exc = Exc("Exception", <<ServiceDown>>, "prove_from_file")
    /\ last.calls = 1
    /\ monitored_projects = {ProjectId(1)}

\* C9: no step takes an id out of the monitored set, and every id a
\* submission has returned is in it
C9_AppendOnly ==
    [][/\ monitored_projects \subseteq monitored_projects'
       /\ returned' \subseteq monitored_projects']_vars

\* two submissions interleaved: the second to return started before the
\* first had added its id
C9_Witness ==
    /\ last.op \in SubmitOps
    /\ last.pc = "done"
    /\ last.seen = {}
    /\ last.got = ProjectId(2)
    /\ returned = {ProjectId(1), ProjectId(2)}
    /\ monitored_projects = {ProjectId(1), ProjectId(2)}

\* C10, as claimed: no response has both solution and solution_error
C10_Original ==
    (last.op \in StatusOps /\ last.pc = "done")
    => ~(Has(last.resp, "solution") /\ Has(last.resp, "solution_error"))

\* C10, amended: a response has both solution and solution_error only when
\* get_project_status was given a save path and writing the copy raised,
\* and then it has no saved_to; when the retrieval raised there is no
\* solution, and the resource never has both
C10_BothOnlyWhenWriteFails ==
    (last.op \in StatusOps /\ last.pc = "done")
    => /\ (Has(last.resp, "solution") /\ Has(last.resp, "solution_error"))
          => /\ last.op = "get_project_status"
             /\ Truthy(last.save)
             /\ last.wrote = "failed"
             /\ ~Has(last.resp, "saved_to")
       /\ last.sol = "raised" => ~Has(last.resp, "solution")

C10_Witness ==
    /\ last.op = "get_project_status"
    /\ last.pc = "done"
    /\ last.wrote = "failed"
    /\ Has(last.resp, "solution")
    /\ Has(last.resp, "solution_error")

====
